---- MODULE Spec2Model ----
(***************************************************************************)
(* Identity resolution and account merging of the Process tracker API.     *)
(*                                                                         *)
(* The store is the relational database behind the FastAPI routes: the     *)
(* users, processes, stages and feedback tables.  One action is one HTTP   *)
(* request (or one call of the bot's database helper) run to completion;   *)
(* where requests run concurrently, calls holds the requests in flight,    *)
(* each with its position and what it has read, and one action is one step *)
(* of one of them.                                                         *)
(* Strings whose case or whitespace the code inspects (emails, company     *)
(* names, positions) are sequences of one-character strings, so that       *)
(* lower() and strip() are computed character by character.                *)
(***************************************************************************)
EXTENDS Integers, Sequences, FiniteSets, TLC

VARIABLES users, processes, stages, feedback, last, calls

vars == <<users, processes, stages, feedback, last, calls>>

(***************************************************************************)
(* Bounds of the model.                                                    *)
(***************************************************************************)
\* largest id of a User row
MaxUserId == 3
\* rows of the processes, stages and feedback tables together
MaxRows == 3
\* largest id of a Process row where processes are created, updated and merged
MaxProcessId == 2

(***************************************************************************)
(* Values.                                                                 *)
(***************************************************************************)
\* SQL NULL / Python None in a text column; distinct from the empty string <<>>.
NULL == <<"<null>">>
\* Python None / absent value where an integer id is expected.
NoId == 0

EmptyStr == <<>>

EmailLowerA == <<"a", "@", "x">>
EmailUpperA == <<"A", "@", "x">>
EmailB == <<"b", "@", "y">>

DiscordIds == {<<"d", "1">>}
GoogleIds == {<<"g", "1">>}
\* what the provider profile may carry as email; EmptyStr is "no email supplied"
ProviderEmails == {EmptyStr, EmailLowerA, EmailUpperA, EmailB}
\* the display name a provider profile carries
ProfileUsernames == {"al"}

(***************************************************************************)
(* String functions.                                                       *)
(***************************************************************************)
LowerChar(c) ==
    CASE c = "A" -> "a"
      [] c = "G" -> "g"
      [] c = "M" -> "m"
      [] c = "O" -> "o"
      [] c = "S" -> "s"
      [] OTHER -> c

\* str.lower() / SQL lower()
Lower(s) == [i \in DOMAIN s |-> LowerChar(s[i])]

Whitespace == {" "}

RECURSIVE LStrip(_)
LStrip(s) == IF s # <<>> /\ Head(s) \in Whitespace THEN LStrip(Tail(s)) ELSE s

RECURSIVE RStrip(_)
RStrip(s) ==
    IF s # <<>> /\ s[Len(s)] \in Whitespace THEN RStrip(SubSeq(s, 1, Len(s) - 1)) ELSE s

\* str.strip() / SQL trim()
Strip(s) == RStrip(LStrip(s))

TruthyWhenNotNone(s) == s # NULL

\* Python truthiness of an Optional[str]
Truthy(s) == s # NULL /\ s # EmptyStr

(***************************************************************************)
(* The store.                                                              *)
(***************************************************************************)
Store == [users |-> users, processes |-> processes, stages |-> stages, feedback |-> feedback]

EmptyTable == <<>>

\* INTEGER PRIMARY KEY of the default SQLite database: largest rowid plus one
NextId(table) ==
    IF DOMAIN table = {} THEN 1
    ELSE (CHOOSE m \in DOMAIN table : \A k \in DOMAIN table : k <= m) + 1

Insert(table, row) == [k \in DOMAIN table \cup {NextId(table)} |->
                          IF k \in DOMAIN table THEN table[k] ELSE row]

Remove(table, ids) == [k \in DOMAIN table \ ids |-> table[k]]

\* unique=True on users.discord_id, users.google_id and users.email:
\* exact comparison, NULLs never collide
UniqueNoCheckEmail(us) ==
    \A a, b \in DOMAIN us :
        a # b =>
            /\ (us[a].discord_id # NULL => us[a].discord_id # us[b].discord_id)
            /\ (us[a].google_id # NULL => us[a].google_id # us[b].google_id)

UniqueNotEnforced(us) == TRUE

UniqueOk(us) ==
    \A a, b \in DOMAIN us :
        a # b =>
            /\ (us[a].discord_id # NULL => us[a].discord_id # us[b].discord_id)
            /\ (us[a].google_id # NULL => us[a].google_id # us[b].google_id)
            /\ (us[a].email # NULL => us[a].email # us[b].email)

(***************************************************************************)
(* Registry lookups.  Each returns the set of rows .first() may return:    *)
(* {NoId} when nothing matches, otherwise the ids of the matching rows     *)
(* (the queries carry no ORDER BY).                                        *)
(***************************************************************************)
FirstOf(matches) == IF matches = {} THEN {NoId} ELSE matches

GetUserByEmail(us, email) ==
    IF ~Truthy(email) THEN {NoId}
    ELSE FirstOf({u \in DOMAIN us : us[u].email # NULL /\ Lower(us[u].email) = Lower(email)})

GetUserByDiscordId(us, discord_id) ==
    FirstOf({u \in DOMAIN us : us[u].discord_id = discord_id})

GetUserByGoogleId(us, google_id) ==
    FirstOf({u \in DOMAIN us : us[u].google_id = google_id})

(***************************************************************************)
(* AccountMerger: merge_user_accounts.                                     *)
(***************************************************************************)
\* the key of the lookup built over the target's processes
ProcessKeyCompanyOnly(p) == <<Lower(p.company_name)>>

ProcessKey(p) == <<Lower(p.company_name), p.position>>

OwnedProcesses(S, user) == {p \in DOMAIN S.processes : S.processes[p].user_id = user}

\* target_processes_by_key: one target process per key (a later row of the
\* query replaces an earlier one with the same key; the query is unordered)
TargetProcessesByKey(S, target_user) ==
    LET target_processes == OwnedProcesses(S, target_user)
        keys == {ProcessKey(S.processes[p]) : p \in target_processes}
    IN  {f \in [keys -> target_processes] : \A k \in keys : ProcessKey(S.processes[f[k]]) = k}

DeleteProcessesLeavingStages(S, ids) ==
    [S EXCEPT !.processes = Remove(S.processes, ids)]

\* db.delete(process): the stages relationship cascades
DeleteProcesses(S, ids) ==
    [S EXCEPT !.processes = Remove(S.processes, ids),
              !.stages = Remove(S.stages, {s \in DOMAIN S.stages : S.stages[s].process_id \in ids})]

\* db.delete(user): the processes and feedback relationships cascade
DeleteUser(S, user) ==
    LET S1 == DeleteProcesses(S, OwnedProcesses(S, user))
    IN  [S1 EXCEPT !.users = Remove(S.users, {user}),
                   !.feedback = Remove(S.feedback,
                                   {f \in DOMAIN S.feedback : S.feedback[f].user_id = user})]

\* the database errors a request may meet: none, or the first or the second
\* commit of merge_user_accounts raising
DbErrors == {"none", "commit1", "commit2"}

\* what a request's merge did: its arguments, the source's processes it
\* re-parented and the target's processes it deleted
MergeInfo(source, target, moved, deleted, feedback_items) ==
    [source |-> source, target |-> target, moved |-> moved, deleted |-> deleted,
     feedback_items |-> feedback_items]

NoMerge == MergeInfo(NoId, NoId, {}, {}, {})

MergeUserAccountsCascadingFeedback(S, source_user, target_user, dberr) ==
    LET source_processes == OwnedProcesses(S, source_user)
    IN  { LET colliding == {sp \in source_processes :
                               ProcessKey(S.processes[sp]) \in DOMAIN by_key}
              deleted == {by_key[ProcessKey(S.processes[sp])] : sp \in colliding}
              S1 == DeleteProcesses(S, deleted)
              S2 == [S1 EXCEPT
                       !.processes = [p \in DOMAIN S1.processes |->
                           IF p \in source_processes
                           THEN [S1.processes[p] EXCEPT !.user_id = target_user]
                           ELSE S1.processes[p]],
                       !.feedback = S1.feedback]
              S3 == DeleteUser(S2, source_user)
              info == MergeInfo(source_user, target_user, source_processes, deleted,
                                {f \in DOMAIN S.feedback : S.feedback[f].user_id = source_user})
          IN  CASE dberr = "commit1" -> [db |-> S, raised |-> TRUE, info |-> info]
                [] dberr = "commit2" -> [db |-> S2, raised |-> TRUE, info |-> info]
                [] OTHER -> [db |-> S3, raised |-> FALSE, info |-> info]
        : by_key \in TargetProcessesByKey(S, target_user) }

\* The set of possible results [db, raised, info]: db is the store persisted
\* when the function returns or raises.
MergeUserAccounts(S, source_user, target_user, dberr) ==
    LET source_processes == OwnedProcesses(S, source_user)
    IN  { LET colliding == {sp \in source_processes :
                               ProcessKey(S.processes[sp]) \in DOMAIN by_key}
              deleted == {by_key[ProcessKey(S.processes[sp])] : sp \in colliding}
              S1 == DeleteProcesses(S, deleted)
              S2 == [S1 EXCEPT
                       !.processes = [p \in DOMAIN S1.processes |->
                           IF p \in source_processes
                           THEN [S1.processes[p] EXCEPT !.user_id = target_user]
                           ELSE S1.processes[p]],
                       !.feedback = [f \in DOMAIN S1.feedback |->
                           IF S1.feedback[f].user_id = source_user
                           THEN [S1.feedback[f] EXCEPT !.user_id = target_user]
                           ELSE S1.feedback[f]]]
              S3 == DeleteUser(S2, source_user)
              info == MergeInfo(source_user, target_user, source_processes, deleted,
                                {f \in DOMAIN S.feedback : S.feedback[f].user_id = source_user})
          IN  CASE dberr = "commit1" -> [db |-> S, raised |-> TRUE, info |-> info]
                [] dberr = "commit2" -> [db |-> S2, raised |-> TRUE, info |-> info]
                [] OTHER -> [db |-> S3, raised |-> FALSE, info |-> info]
        : by_key \in TargetProcessesByKey(S, target_user) }

(***************************************************************************)
(* Requests and their outcomes.                                            *)
(*                                                                         *)
(* A handler is an operator from the store and the request to the set of   *)
(* its possible results [db, last]: db is the store persisted when the     *)
(* request ends, last the record of the request and of what the caller     *)
(* got.  In last: status is the HTTP status, detail the reason of an       *)
(* error, sub the subject of the issued token (NoId when none was issued), *)
(* source and target the arguments of the merge the request ran (NoId when *)
(* it ran none).                                                           *)
(***************************************************************************)
Request(user_id, provider_id, email, username, dberr) ==
    [user_id |-> user_id, provider_id |-> provider_id, email |-> email,
     username |-> username, dberr |-> dberr]

Result(S, op, req, branch, status, detail, sub, merge) ==
    [db |-> S,
     last |-> [op |-> op, branch |-> branch, status |-> status, detail |-> detail,
               sub |-> sub, user_id |-> req.user_id, provider_id |-> req.provider_id,
               email |-> req.email, username |-> req.username, dberr |-> req.dberr,
               source |-> merge.source, target |-> merge.target,
               moved |-> merge.moved, deleted |-> merge.deleted,
               feedback_items |-> merge.feedback_items]]

\* db.add(User(...)) with the columns not named left NULL
NewUser(discord_id, google_id, email, username) ==
    [discord_id |-> discord_id, google_id |-> google_id, email |-> email, username |-> username]

\* the merge a linking branch runs first, when another row holds the provider id
MergeIfOther(S, existing, user, dberr) ==
    IF existing # NoId /\ existing # user
    THEN MergeUserAccounts(S, existing, user, dberr)
    ELSE {[db |-> S, raised |-> FALSE, info |-> NoMerge]}

\* the email a linking branch leaves on the user: set only when the user has
\* none, and restored to original_email when that was set
LinkedEmail(user_email, email) ==
    LET original_email == user_email
        assigned == IF Truthy(email) /\ ~Truthy(user_email) THEN email ELSE user_email
    IN  IF Truthy(original_email) /\ assigned # original_email THEN original_email ELSE assigned

\* if not user.username: user.username = username
KeptUsername(user_username, username) == IF user_username = "" THEN username ELSE user_username

TokenUserAfterMergeSource(source_user, target_user) == source_user

\* user = web_user: the token of a request that merged is issued for the target
TokenUserAfterMerge(source_user, target_user) == target_user

\* except Exception as e: raise HTTPException(500) around the body of both
\* callbacks; HTTPException is an Exception, so the status raised inside is lost
CallbackExcept(raised_status) == 500

\* except HTTPException: raise, then except Exception: raise HTTPException(500)
LinkExcept(is_http_exception, raised_status) ==
    IF is_http_exception THEN raised_status ELSE 500

(***************************************************************************)
(* GET /auth/discord/callback                                              *)
(***************************************************************************)
\* if user_id: ... if user: (lines 244-279)
DiscordCallbackExplicit(S, req, user) ==
    UNION { UNION {
            IF m.raised
            THEN {Result(m.db, "discord_callback", req, "explicit",
                         CallbackExcept(500), "db_error", NoId, m.info)}
            ELSE { IF existing_email_user # NoId /\ existing_email_user # user
                   THEN Result(m.db, "discord_callback", req, "explicit",
                               CallbackExcept(400), "conflict", NoId, m.info)
                   ELSE LET u == m.db.users[user]
                            linked == [u EXCEPT
                                         !.discord_id = req.provider_id,
                                         !.email = LinkedEmail(u.email, req.email),
                                         !.username = KeptUsername(u.username, req.username)]
                            S1 == [m.db EXCEPT !.users[user] = linked]
                        IN  IF UniqueOk(S1.users)
                            THEN Result(S1, "discord_callback", req, "explicit",
                                        307, "", user, m.info)
                            ELSE Result(m.db, "discord_callback", req, "explicit",
                                        CallbackExcept(500), "integrity_error", NoId, m.info)
                   : existing_email_user \in GetUserByEmail(m.db.users, req.email) }
          : m \in MergeIfOther(S, existing_discord_user, user, req.dberr) }
      : existing_discord_user \in GetUserByDiscordId(S.users, req.provider_id) }

\* "User not found, create new" (lines 281-294) and "Neither exists" (lines 340-354)
DiscordCallbackCreate(S, req, branch) ==
    IF ~Truthy(req.email)
    THEN {Result(S, "discord_callback", req, branch, CallbackExcept(400), "missing_email",
                 NoId, NoMerge)}
    ELSE LET S1 == [S EXCEPT !.users = Insert(S.users,
                        NewUser(req.provider_id, NULL, req.email, req.username))]
         IN  IF UniqueOk(S1.users)
             THEN {Result(S1, "discord_callback", req, branch, 307, "",
                          NextId(S.users), NoMerge)}
             ELSE {Result(S, "discord_callback", req, branch, CallbackExcept(500),
                          "integrity_error", NoId, NoMerge)}

\* elif ghost_user and web_user: (lines 295-313)
DiscordCallbackGhostAndWeb(S, req, ghost_user, web_user) ==
    IF ghost_user # web_user
    THEN { IF m.raised
           THEN Result(m.db, "discord_callback", req, "merge_ghost_into_web",
                       CallbackExcept(500), "db_error", NoId, m.info)
           ELSE LET u == m.db.users[web_user]
                    linked == [u EXCEPT !.discord_id = req.provider_id,
                                        !.username = KeptUsername(u.username, req.username)]
                    S1 == [m.db EXCEPT !.users[web_user] = linked]
                IN  IF UniqueOk(S1.users)
                    THEN Result(S1, "discord_callback", req, "merge_ghost_into_web",
                                307, "", TokenUserAfterMerge(ghost_user, web_user), m.info)
                    ELSE Result(m.db, "discord_callback", req, "merge_ghost_into_web",
                                CallbackExcept(500), "integrity_error", NoId, m.info)
           : m \in MergeUserAccounts(S, ghost_user, web_user, req.dberr) }
    ELSE LET u == S.users[ghost_user]
             S1 == [S EXCEPT !.users[ghost_user].email =
                                IF ~Truthy(u.email) THEN req.email ELSE u.email]
         IN  {Result(S1, "discord_callback", req, "same_user", 307, "", ghost_user, NoMerge)}

\* elif ghost_user and not web_user: (lines 314-330)
DiscordCallbackPromoteGhost(S, req, ghost_user) ==
    LET u == S.users[ghost_user]
        promoted == IF Truthy(req.email)
                    THEN [u EXCEPT !.email = req.email,
                                   !.username = KeptUsername(u.username, req.username)]
                    ELSE [u EXCEPT !.username = KeptUsername(u.username, req.username)]
        S1 == [S EXCEPT !.users[ghost_user] = promoted]
    IN  IF UniqueOk(S1.users)
        THEN {Result(S1, "discord_callback", req, "promote_ghost", 307, "", ghost_user, NoMerge)}
        ELSE {Result(S, "discord_callback", req, "promote_ghost", CallbackExcept(500),
                     "integrity_error", NoId, NoMerge)}

\* elif not ghost_user and web_user: (lines 331-339)
DiscordCallbackAttachToWeb(S, req, web_user) ==
    LET u == S.users[web_user]
        linked == [u EXCEPT !.discord_id = req.provider_id,
                            !.username = KeptUsername(u.username, req.username)]
        S1 == [S EXCEPT !.users[web_user] = linked]
    IN  IF UniqueOk(S1.users)
        THEN {Result(S1, "discord_callback", req, "attach_to_web", 307, "", web_user, NoMerge)}
        ELSE {Result(S, "discord_callback", req, "attach_to_web", CallbackExcept(500),
                     "integrity_error", NoId, NoMerge)}

\* the decision chain of the callback (lines 234-354)
DiscordCallbackDecide(S, req, ghost_user, web_user) ==
    IF req.user_id # NoId
    THEN IF req.user_id \in DOMAIN S.users
         THEN DiscordCallbackExplicit(S, req, req.user_id)
         ELSE DiscordCallbackCreate(S, req, "user_not_found")
    ELSE IF ghost_user # NoId /\ web_user # NoId
         THEN DiscordCallbackGhostAndWeb(S, req, ghost_user, web_user)
    ELSE IF ghost_user # NoId /\ web_user = NoId
         THEN DiscordCallbackPromoteGhost(S, req, ghost_user)
    ELSE IF ghost_user = NoId /\ web_user # NoId
         THEN DiscordCallbackAttachToWeb(S, req, web_user)
    ELSE DiscordCallbackCreate(S, req, "create_new")

\* the lookups (lines 234-238), then the decision chain on what they found
discord_oauth_callback(S, req) ==
    UNION { DiscordCallbackDecide(S, req, ghost_user, web_user)
          : <<ghost_user, web_user>> \in GetUserByDiscordId(S.users, req.provider_id)
                                          \X GetUserByEmail(S.users, req.email) }

(***************************************************************************)
(* GET /auth/google/callback                                               *)
(***************************************************************************)
\* if user_id: ... if user: (lines 583-610)
GoogleCallbackExplicit(S, req, user) ==
    UNION { UNION {
            IF m.raised
            THEN {Result(m.db, "google_callback", req, "explicit",
                         CallbackExcept(500), "db_error", NoId, m.info)}
            ELSE { IF existing_email_user # NoId /\ existing_email_user # user
                   THEN Result(m.db, "google_callback", req, "explicit",
                               CallbackExcept(400), "conflict", NoId, m.info)
                   ELSE LET u == m.db.users[user]
                            linked == [u EXCEPT
                                         !.google_id = req.provider_id,
                                         !.email = LinkedEmail(u.email, req.email),
                                         !.username = KeptUsername(u.username, req.username)]
                            S1 == [m.db EXCEPT !.users[user] = linked]
                        IN  IF UniqueOk(S1.users)
                            THEN Result(S1, "google_callback", req, "explicit",
                                        307, "", user, m.info)
                            ELSE Result(m.db, "google_callback", req, "explicit",
                                        CallbackExcept(500), "integrity_error", NoId, m.info)
                   : existing_email_user \in GetUserByEmail(m.db.users, req.email) }
          : m \in MergeIfOther(S, existing_google_user, user, req.dberr) }
      : existing_google_user \in GetUserByGoogleId(S.users, req.provider_id) }

\* "User not found, create new" (lines 611-625) and "Neither exists" (lines 655-669)
GoogleCallbackCreate(S, req, branch) ==
    IF ~Truthy(req.email)
    THEN {Result(S, "google_callback", req, branch, CallbackExcept(400), "missing_email",
                 NoId, NoMerge)}
    ELSE LET S1 == [S EXCEPT !.users = Insert(S.users,
                        NewUser(NULL, req.provider_id, req.email, req.username))]
         IN  IF UniqueOk(S1.users)
             THEN {Result(S1, "google_callback", req, branch, 307, "",
                          NextId(S.users), NoMerge)}
             ELSE {Result(S, "google_callback", req, branch, CallbackExcept(500),
                          "integrity_error", NoId, NoMerge)}

\* elif google_user_obj and email_user: (lines 626-637)
GoogleCallbackBothExist(S, req, google_user_obj, email_user) ==
    IF google_user_obj # email_user
    THEN { IF m.raised
           THEN Result(m.db, "google_callback", req, "merge_ghost_into_web",
                       CallbackExcept(500), "db_error", NoId, m.info)
           ELSE LET u == m.db.users[email_user]
                    linked == [u EXCEPT !.google_id = req.provider_id,
                                        !.username = KeptUsername(u.username, req.username)]
                    S1 == [m.db EXCEPT !.users[email_user] = linked]
                IN  IF UniqueOk(S1.users)
                    THEN Result(S1, "google_callback", req, "merge_ghost_into_web",
                                307, "", TokenUserAfterMerge(google_user_obj, email_user), m.info)
                    ELSE Result(m.db, "google_callback", req, "merge_ghost_into_web",
                                CallbackExcept(500), "integrity_error", NoId, m.info)
           : m \in MergeUserAccounts(S, google_user_obj, email_user, req.dberr) }
    ELSE {Result(S, "google_callback", req, "same_user", 307, "", google_user_obj, NoMerge)}

\* elif google_user_obj and not email_user: (lines 638-646)
GoogleCallbackPromote(S, req, google_user_obj) ==
    LET u == S.users[google_user_obj]
        promoted == [u EXCEPT
                       !.email = IF Truthy(req.email) /\ ~Truthy(u.email) THEN req.email ELSE u.email,
                       !.username = KeptUsername(u.username, req.username)]
        S1 == [S EXCEPT !.users[google_user_obj] = promoted]
    IN  IF UniqueOk(S1.users)
        THEN {Result(S1, "google_callback", req, "promote_ghost", 307, "",
                     google_user_obj, NoMerge)}
        ELSE {Result(S, "google_callback", req, "promote_ghost", CallbackExcept(500),
                     "integrity_error", NoId, NoMerge)}

\* elif not google_user_obj and email_user: (lines 647-654)
GoogleCallbackAttachToWeb(S, req, email_user) ==
    LET u == S.users[email_user]
        linked == [u EXCEPT !.google_id = req.provider_id,
                            !.username = KeptUsername(u.username, req.username)]
        S1 == [S EXCEPT !.users[email_user] = linked]
    IN  IF UniqueOk(S1.users)
        THEN {Result(S1, "google_callback", req, "attach_to_web", 307, "", email_user, NoMerge)}
        ELSE {Result(S, "google_callback", req, "attach_to_web", CallbackExcept(500),
                     "integrity_error", NoId, NoMerge)}

\* the decision chain of the callback (lines 574-669)
GoogleCallbackDecide(S, req, google_user_obj, email_user) ==
    IF req.user_id # NoId
    THEN IF req.user_id \in DOMAIN S.users
         THEN GoogleCallbackExplicit(S, req, req.user_id)
         ELSE GoogleCallbackCreate(S, req, "user_not_found")
    ELSE IF google_user_obj # NoId /\ email_user # NoId
         THEN GoogleCallbackBothExist(S, req, google_user_obj, email_user)
    ELSE IF google_user_obj # NoId /\ email_user = NoId
         THEN GoogleCallbackPromote(S, req, google_user_obj)
    ELSE IF google_user_obj = NoId /\ email_user # NoId
         THEN GoogleCallbackAttachToWeb(S, req, email_user)
    ELSE GoogleCallbackCreate(S, req, "create_new")

\* the lookups (lines 574-578), then the decision chain on what they found
google_oauth_callback(S, req) ==
    UNION { GoogleCallbackDecide(S, req, google_user_obj, email_user)
          : <<google_user_obj, email_user>> \in GetUserByGoogleId(S.users, req.provider_id)
                                                \X GetUserByEmail(S.users, req.email) }

link_checking_conflict_first(S, req) ==
    LET current_user == req.user_id IN
    UNION { IF existing_email_user # NoId /\ existing_email_user # current_user
            THEN {Result(S, "discord_link", req, "explicit",
                         LinkExcept(TRUE, 400), "conflict", NoId, NoMerge)}
            ELSE UNION {
                   IF m.raised
                   THEN {Result(m.db, "discord_link", req, "explicit",
                                LinkExcept(FALSE, 500), "db_error", NoId, m.info)}
                   ELSE LET u == m.db.users[current_user]
                            linked == [u EXCEPT
                                         !.discord_id = req.provider_id,
                                         !.email = LinkedEmail(u.email, req.email)]
                            S1 == [m.db EXCEPT !.users[current_user] = linked]
                        IN  IF UniqueOk(S1.users)
                            THEN {Result(S1, "discord_link", req, "explicit",
                                         200, "", NoId, m.info)}
                            ELSE {Result(m.db, "discord_link", req, "explicit",
                                         LinkExcept(FALSE, 500), "integrity_error",
                                         NoId, m.info)}
                 : m \in UNION {MergeIfOther(S, existing_discord_user, current_user, req.dberr)
                                : existing_discord_user \in
                                      GetUserByDiscordId(S.users, req.provider_id)} }
          : existing_email_user \in GetUserByEmail(S.users, req.email) }

(***************************************************************************)
(* POST /auth/discord/link and DELETE /auth/discord/disconnect             *)
(***************************************************************************)
\* req.user_id is the authenticated current_user (lines 433-481)
link_discord_account(S, req) ==
    LET current_user == req.user_id IN
    UNION { UNION {
            IF m.raised
            THEN {Result(m.db, "discord_link", req, "explicit",
                         LinkExcept(FALSE, 500), "db_error", NoId, m.info)}
            ELSE { IF existing_email_user # NoId /\ existing_email_user # current_user
                   THEN Result(m.db, "discord_link", req, "explicit",
                               LinkExcept(TRUE, 400), "conflict", NoId, m.info)
                   ELSE LET u == m.db.users[current_user]
                            linked == [u EXCEPT
                                         !.discord_id = req.provider_id,
                                         !.email = LinkedEmail(u.email, req.email)]
                            S1 == [m.db EXCEPT !.users[current_user] = linked]
                        IN  IF UniqueOk(S1.users)
                            THEN Result(S1, "discord_link", req, "explicit",
                                        200, "", NoId, m.info)
                            ELSE Result(m.db, "discord_link", req, "explicit",
                                        LinkExcept(FALSE, 500), "integrity_error", NoId, m.info)
                   : existing_email_user \in GetUserByEmail(m.db.users, req.email) }
          : m \in MergeIfOther(S, existing_discord_user, current_user, req.dberr) }
      : existing_discord_user \in GetUserByDiscordId(S.users, req.provider_id) }

disconnect_deleting_account(S, req) ==
    LET current_user == req.user_id IN
    IF ~Truthy(S.users[current_user].discord_id)
    THEN {Result(S, "discord_disconnect", req, "not_connected", 400, "not_connected",
                 NoId, NoMerge)}
    ELSE {Result(DeleteUser(S, current_user),
                 "discord_disconnect", req, "disconnected", 200, "", NoId, NoMerge)}

\* req.user_id is the authenticated current_user (lines 484-503)
disconnect_discord_account(S, req) ==
    LET current_user == req.user_id IN
    IF ~Truthy(S.users[current_user].discord_id)
    THEN {Result(S, "discord_disconnect", req, "not_connected", 400, "not_connected",
                 NoId, NoMerge)}
    ELSE {Result([S EXCEPT !.users[current_user].discord_id = NULL],
                 "discord_disconnect", req, "disconnected", 200, "", NoId, NoMerge)}

(***************************************************************************)
(* GhostAccountFactory: POST /auth/discord/bot-token and the bot's         *)
(* get_or_create_discord_user.                                             *)
(***************************************************************************)
\* the mapped attributes of User in the API's models
ApiUserColumns ==
    {"id", "discord_id", "discord_avatar", "google_id", "email", "username", "display_name",
     "is_anonymous", "comments_enabled", "discord_privacy_mode", "created_at", "last_login",
     "processes", "feedback", "profile_comments", "authored_comments"}

\* the mapped attributes of User in the bot's models
BotUserColumns ==
    {"id", "discord_id", "google_id", "email", "username", "hashed_password",
     "created_at", "last_login"}

\* the keyword arguments both ghost constructions pass to User(...)
GhostUserKwargs == {"discord_id", "username", "email", "hashed_password"}

\* the declarative constructor raises TypeError on a keyword that is not a
\* mapped attribute of the class
ConstructorAccepts(columns, kwargs) == kwargs \subseteq columns

\* the branch of the bot-token endpoint on the row its lookup found (lines
\* 704-720); neither branch is inside a try block, and the commit of the
\* insert is subject to the UNIQUE constraints
BotTokenDecide(S, req, user) ==
    IF user = NoId
    THEN IF ConstructorAccepts(ApiUserColumns, GhostUserKwargs)
         THEN LET S1 == [S EXCEPT !.users = Insert(S.users,
                            NewUser(req.provider_id, NULL, NULL, req.username))]
              IN  IF UniqueOk(S1.users)
                  THEN Result(S1, "bot_token", req, "create_ghost", 200, "",
                              NextId(S.users), NoMerge)
                  ELSE Result(S, "bot_token", req, "create_ghost", 500, "integrity_error",
                              NoId, NoMerge)
         ELSE Result(S, "bot_token", req, "create_ghost", 500, "type_error", NoId, NoMerge)
    ELSE Result([S EXCEPT !.users[user].username = req.username],
                "bot_token", req, "existing", 200, "", user, NoMerge)

\* lines 689-728
get_discord_bot_token(S, req) ==
    {BotTokenDecide(S, req, user) : user \in GetUserByDiscordId(S.users, req.provider_id)}

\* the branch of the bot's helper on the row its lookup found (bot/database.py
\* lines 54-68); sub is the id of the returned user
GetOrCreateDecide(S, req, user) ==
    IF user = NoId
    THEN IF ConstructorAccepts(BotUserColumns, GhostUserKwargs)
         THEN LET S1 == [S EXCEPT !.users = Insert(S.users,
                            NewUser(req.provider_id, NULL, NULL, req.username))]
              IN  IF UniqueOk(S1.users)
                  THEN Result(S1, "get_or_create", req, "create_ghost", 200, "",
                              NextId(S.users), NoMerge)
                  ELSE Result(S, "get_or_create", req, "create_ghost", 500,
                              "integrity_error", NoId, NoMerge)
         ELSE Result(S, "get_or_create", req, "create_ghost", 500, "type_error", NoId, NoMerge)
    ELSE Result(S, "get_or_create", req, "existing", 200, "", user, NoMerge)

\* bot/database.py lines 49-68
get_or_create_discord_user(S, req) ==
    {GetOrCreateDecide(S, req, user) : user \in GetUserByDiscordId(S.users, req.provider_id)}

(***************************************************************************)
(* The identity flows as a state machine: requests run one at a time       *)
(* against the shared store, each to completion.                           *)
(***************************************************************************)
\* state.userId of a callback: NoId is "absent", an id past the table's bound
\* resolves to no row
StateUserIds(us) == {NoId, MaxUserId + 1} \cup DOMAIN us

NoRequest == Request(NoId, NULL, NULL, "", "none")

\* no request is in flight
NoCalls == <<>>
InitLast == Result(Store, "init", NoRequest, "", 0, "", NoId, NoMerge).last

\* the request ends with result r; ids stay within the bounds of the model
Apply(r) ==
    /\ DOMAIN r.db.users \subseteq 1 .. MaxUserId
    /\ users' = r.db.users
    /\ processes' = r.db.processes
    /\ stages' = r.db.stages
    /\ feedback' = r.db.feedback
    /\ last' = r.last
    /\ calls' = calls

Init ==
    /\ users = EmptyTable
    /\ processes = EmptyTable
    /\ stages = EmptyTable
    /\ feedback = EmptyTable
    /\ last = InitLast
    /\ calls = NoCalls

BotToken ==
    \E discord_id \in DiscordIds, username \in ProfileUsernames :
        \E r \in get_discord_bot_token(Store, Request(NoId, discord_id, NULL, username, "none")) :
            Apply(r)

BotGetOrCreate ==
    \E discord_id \in DiscordIds, username \in ProfileUsernames :
        \E r \in get_or_create_discord_user(Store, Request(NoId, discord_id, NULL, username, "none")) :
            Apply(r)

DiscordCallback ==
    \E discord_id \in DiscordIds, email \in ProviderEmails, username \in ProfileUsernames,
       user_id \in StateUserIds(users) :
        \E r \in discord_oauth_callback(Store, Request(user_id, discord_id, email, username, "none")) :
            Apply(r)

GoogleCallback ==
    \E google_id \in GoogleIds, email \in ProviderEmails, username \in ProfileUsernames,
       user_id \in StateUserIds(users) :
        \E r \in google_oauth_callback(Store, Request(user_id, google_id, email, username, "none")) :
            Apply(r)

DiscordLink ==
    \E current_user \in DOMAIN users, discord_id \in DiscordIds, email \in ProviderEmails :
        \E r \in link_discord_account(Store, Request(current_user, discord_id, email, "", "none")) :
            Apply(r)

DiscordDisconnect ==
    \E current_user \in DOMAIN users :
        \E r \in disconnect_discord_account(Store, Request(current_user, NULL, NULL, "", "none")) :
            Apply(r)

Next ==
    \/ BotToken
    \/ BotGetOrCreate
    \/ DiscordCallback
    \/ GoogleCallback
    \/ DiscordLink
    \/ DiscordDisconnect

Spec == Init /\ [][Next]_vars

(***************************************************************************)
(* Processes, stages and feedback: the rows a merge moves.                 *)
(***************************************************************************)
CompanyNames == {<<"G", "o">>, <<"g", "o">>}
\* position of a ProcessCreate body: absent, blank, padded or plain
PositionInputs == {NULL, <<" ">>, <<"S">>, <<"s", " ">>}
\* positions that predate the normalisation in post_process
LegacyPositions == {EmptyStr}
StageNames == {"OA"}
StageDates == {1}

\* position.strip() if position and position.strip() else None
NormalizePosition(position) ==
    IF Truthy(position) /\ Truthy(Strip(position)) THEN Strip(position) ELSE NULL

\* the duplicate query of post_process (lines 180-203) on one row
IsDuplicateOf(row, user, company_name, position_value) ==
    /\ row.user_id = user
    /\ Lower(row.company_name) = Lower(company_name)
    /\ IF position_value = NULL
       THEN row.position = NULL \/ row.position = EmptyStr \/ Strip(row.position) = EmptyStr
       ELSE row.position # NULL /\ Lower(Strip(row.position)) = Lower(position_value)

\* POST /processes/ (lines 175-223); req.user_id is the authenticated user
post_process(S, req, company_name, position) ==
    LET current_user == req.user_id
        position_value == NormalizePosition(position)
        existing == {p \in DOMAIN S.processes :
                        IsDuplicateOf(S.processes[p], current_user, company_name, position_value)}
    IN  IF existing # {}
        THEN {Result(S, "post_process", req, "duplicate", 400, "duplicate", NoId, NoMerge)}
        ELSE {Result([S EXCEPT !.processes = Insert(S.processes,
                          [user_id |-> current_user, company_name |-> company_name,
                           position |-> position_value])],
                     "post_process", req, "created", 201, "", NoId, NoMerge)}

\* POST /stages/ (stages.py lines 115-146); req.user_id is the authenticated user
post_stage(S, req, process_id, stage_name, stage_date) ==
    IF ~(process_id \in DOMAIN S.processes /\ S.processes[process_id].user_id = req.user_id)
    THEN {Result(S, "post_stage", req, "not_found", 404, "not_found", NoId, NoMerge)}
    ELSE IF \E s \in DOMAIN S.stages :
               /\ S.stages[s].process_id = process_id
               /\ S.stages[s].stage_name = stage_name
               /\ S.stages[s].stage_date = stage_date
    THEN {Result(S, "post_stage", req, "duplicate", 400, "duplicate", NoId, NoMerge)}
    ELSE {Result([S EXCEPT !.stages = Insert(S.stages,
                      [process_id |-> process_id, stage_name |-> stage_name,
                       stage_date |-> stage_date,
                       order |-> Cardinality({s \in DOMAIN S.stages :
                                                S.stages[s].process_id = process_id}) + 1])],
                 "post_stage", req, "created", 200, "", NoId, NoMerge)}

\* POST /feedback/ (feedback.py lines 41-77); req.user_id is the authenticated
\* user, NoId for an anonymous submission (which leaves user_id NULL)
create_feedback(S, req) ==
    {Result([S EXCEPT !.feedback = Insert(S.feedback, [user_id |-> req.user_id])],
            "create_feedback", req, "created", 201, "", NoId, NoMerge)}

(***************************************************************************)
(* Merging as a state machine.  The store holds a ghost account 1 (made by *)
(* the bot) and a web account 2 (made by a Google sign-up) and any tables  *)
(* of processes, stages and feedback, within the bounds, that the routes   *)
(* above can have built for them (a position may also be a legacy one).    *)
(* The requests are the linking requests that merge the two accounts; a    *)
(* link may meet a database error at either commit of the merge.           *)
(***************************************************************************)
MergeDiscordIds == {<<"d", "1">>}
MergeEmails == {EmailLowerA}

InitMergeUsers ==
    <<NewUser(<<"d", "1">>, NULL, NULL, "al"),
      NewUser(NULL, <<"g", "1">>, EmailLowerA, "al")>>

StoredPositions == {NormalizePosition(p) : p \in PositionInputs} \cup LegacyPositions

ProcessRows ==
    [user_id : DOMAIN InitMergeUsers, company_name : CompanyNames, position : StoredPositions]

\* no row is one that post_process would have refused when it was created
ProcessTables(n) ==
    {t \in [1 .. n -> ProcessRows] :
        \A a, b \in 1 .. n :
            a < b => ~IsDuplicateOf(t[a], t[b].user_id, t[b].company_name,
                                    NormalizePosition(t[b].position))}

\* stages as post_stage numbers them, no two of a process with the same name
\* and date
StageTables(procs, n) ==
    {t \in [1 .. n -> [process_id : DOMAIN procs, stage_name : StageNames,
                       stage_date : StageDates, order : 1 .. MaxRows]] :
        /\ \A a, b \in 1 .. n :
              a < b => ~( /\ t[a].process_id = t[b].process_id
                          /\ t[a].stage_name = t[b].stage_name
                          /\ t[a].stage_date = t[b].stage_date )
        /\ \A a \in 1 .. n :
              t[a].order = Cardinality({b \in 1 .. (a - 1) :
                                          t[b].process_id = t[a].process_id}) + 1}

FeedbackTables(n) == [1 .. n -> [user_id : DOMAIN InitMergeUsers \cup {NoId}]]

InitMerge ==
    /\ users = InitMergeUsers
    /\ \E np \in 0 .. MaxRows :
          /\ processes \in ProcessTables(np)
          /\ \E ns \in 0 .. (MaxRows - np) :
                /\ stages \in StageTables(processes, ns)
                /\ \E nf \in 0 .. (MaxRows - np - ns) : feedback \in FeedbackTables(nf)
    /\ last = InitLast
    /\ calls = NoCalls

MergeDiscordLink ==
    \E current_user \in DOMAIN users, discord_id \in MergeDiscordIds, email \in MergeEmails,
       dberr \in DbErrors :
        \E r \in link_discord_account(Store, Request(current_user, discord_id, email, "", dberr)) :
            Apply(r)

MergeDiscordCallback ==
    \E discord_id \in MergeDiscordIds, email \in MergeEmails, username \in ProfileUsernames,
       user_id \in {NoId} \cup DOMAIN users :
        \E r \in discord_oauth_callback(Store, Request(user_id, discord_id, email, username, "none")) :
            Apply(r)

\* the tables a user fills stay within the bound of the model
ApplyBounded(r) ==
    /\ Cardinality(DOMAIN r.db.processes) + Cardinality(DOMAIN r.db.stages)
          + Cardinality(DOMAIN r.db.feedback) <= MaxRows
    /\ DOMAIN r.db.processes \cup DOMAIN r.db.stages \cup DOMAIN r.db.feedback
          \subseteq 1 .. MaxRows
    /\ Apply(r)

PostProcess ==
    \E current_user \in DOMAIN users, company_name \in CompanyNames, position \in PositionInputs :
        \E r \in post_process(Store, Request(current_user, NULL, NULL, "", "none"),
                              company_name, position) :
            ApplyBounded(r)

PostStage ==
    \E current_user \in DOMAIN users, process_id \in DOMAIN processes,
       stage_name \in StageNames, stage_date \in StageDates :
        \E r \in post_stage(Store, Request(current_user, NULL, NULL, "", "none"),
                            process_id, stage_name, stage_date) :
            ApplyBounded(r)

CreateFeedback ==
    \E current_user \in DOMAIN users \cup {NoId} :
        \E r \in create_feedback(Store, Request(current_user, NULL, NULL, "", "none")) :
            ApplyBounded(r)

NextMerge ==
    \/ MergeDiscordLink
    \/ MergeDiscordCallback

SpecMerge == InitMerge /\ [][NextMerge]_vars

(***************************************************************************)
(* The routes that fill the tables, as a state machine of their own: the   *)
(* two accounts start with empty tables.  Every table these requests build *)
(* is one InitMerge starts from.                                           *)
(***************************************************************************)
InitTables ==
    /\ users = InitMergeUsers
    /\ processes = EmptyTable
    /\ stages = EmptyTable
    /\ feedback = EmptyTable
    /\ last = InitLast
    /\ calls = NoCalls

TablesDiscordDisconnect ==
    \E current_user \in DOMAIN users :
        \E r \in disconnect_discord_account(Store, Request(current_user, NULL, NULL, "", "none")) :
            Apply(r)

NextTables ==
    \/ PostProcess
    \/ PostStage
    \/ CreateFeedback
    \/ TablesDiscordDisconnect

SpecTables == InitTables /\ [][NextTables]_vars

TablesAreInitMergeTables ==
    /\ processes \in ProcessTables(Len(processes))
    /\ stages \in StageTables(processes, Len(stages))
    /\ feedback \in FeedbackTables(Len(feedback))

(***************************************************************************)
(* The end-to-end scenarios: the ghost account 1 owns one process with the *)
(* stage "OA", the web account 2 one process with the stage "Offer", for   *)
(* every company name and stored position of the two processes; then the   *)
(* linking requests of the merge state machine.                            *)
(***************************************************************************)
EndToEndStages ==
    <<[process_id |-> 1, stage_name |-> "OA", stage_date |-> 1, order |-> 1],
      [process_id |-> 2, stage_name |-> "Offer", stage_date |-> 1, order |-> 1]>>

InitEndToEnd ==
    /\ users = InitMergeUsers
    /\ \E ghost_company, web_company \in CompanyNames,
          ghost_position, web_position \in StoredPositions :
          processes = <<[user_id |-> 1, company_name |-> ghost_company,
                         position |-> ghost_position],
                        [user_id |-> 2, company_name |-> web_company,
                         position |-> web_position]>>
    /\ stages = EndToEndStages
    /\ feedback = EmptyTable
    /\ last = InitLast
    /\ calls = NoCalls

SpecEndToEnd == InitEndToEnd /\ [][NextMerge]_vars

(***************************************************************************)
(* The ghost account factory as a state machine: bot-token requests and    *)
(* the bot's get_or_create_discord_user for two Discord identities whose   *)
(* display name may change, and Discord sign-ins that give rows an email.  *)
(***************************************************************************)
GhostDiscordIds == {<<"d", "1">>, <<"d", "2">>}
Usernames == {"al", "bo"}
GhostEmails == {EmptyStr, EmailLowerA}

GhostBotToken ==
    \E discord_id \in GhostDiscordIds, username \in Usernames :
        \E r \in get_discord_bot_token(Store, Request(NoId, discord_id, NULL, username, "none")) :
            Apply(r)

GhostGetOrCreate ==
    \E discord_id \in GhostDiscordIds, username \in Usernames :
        \E r \in get_or_create_discord_user(Store, Request(NoId, discord_id, NULL, username, "none")) :
            Apply(r)

GhostDiscordCallback ==
    \E discord_id \in GhostDiscordIds, email \in GhostEmails, username \in Usernames :
        \E r \in discord_oauth_callback(Store, Request(NoId, discord_id, email, username, "none")) :
            Apply(r)

NextGhost ==
    \/ GhostBotToken
    \/ GhostGetOrCreate
    \/ GhostDiscordCallback

SpecGhost == Init /\ [][NextGhost]_vars

(***************************************************************************)
(* Process creations, process updates and account merges together: the two *)
(* accounts of InitMergeUsers fill and edit their own tables through the   *)
(* routes, and the web account links the ghost's Discord id.               *)
(***************************************************************************)
\* company_name of a ProcessUpdate body: absent (NULL) or given
UpdateCompanyNames == {NULL} \cup CompanyNames

\* PATCH /processes/{process_id} (processes.py lines 250-304); req.user_id is
\* the authenticated user, a NULL field of the body is a field not provided
update_process(S, req, process_id, company_name, position) ==
    IF ~(process_id \in DOMAIN S.processes /\ S.processes[process_id].user_id = req.user_id)
    THEN {Result(S, "update_process", req, "not_found", 404, "not_found", NoId, NoMerge)}
    ELSE
    LET current_user == req.user_id
        process == S.processes[process_id]
        new_company_name == IF company_name # NULL THEN company_name ELSE process.company_name
        new_position == IF position # NULL THEN position ELSE process.position
        new_position_value == NormalizePosition(new_position)
        existing == {p \in DOMAIN S.processes \ {process_id} :
                        IsDuplicateOf(S.processes[p], current_user,
                                      new_company_name, new_position_value)}
        updated == [process EXCEPT
                      !.company_name = IF company_name # NULL THEN company_name ELSE @,
                      !.position = IF position # NULL THEN new_position_value ELSE @]
    IN  IF (company_name # NULL \/ position # NULL) /\ existing # {}
        THEN {Result(S, "update_process", req, "duplicate", 400, "duplicate", NoId, NoMerge)}
        ELSE {Result([S EXCEPT !.processes[process_id] = updated],
                     "update_process", req, "updated", 200, "", NoId, NoMerge)}

\* the ids of the process rows stay within MaxProcessId
ApplyKeys(r) ==
    /\ DOMAIN r.db.processes \subseteq 1 .. MaxProcessId
    /\ Apply(r)

KeysPostProcess ==
    \E current_user \in DOMAIN users, company_name \in CompanyNames, position \in PositionInputs :
        \E r \in post_process(Store, Request(current_user, NULL, NULL, "", "none"),
                              company_name, position) :
            ApplyKeys(r)

UpdateProcess ==
    \E current_user \in DOMAIN users, process_id \in DOMAIN processes,
       company_name \in UpdateCompanyNames, position \in PositionInputs :
        \E r \in update_process(Store, Request(current_user, NULL, NULL, "", "none"),
                                process_id, company_name, position) :
            ApplyKeys(r)

NextKeys ==
    \/ KeysPostProcess
    \/ UpdateProcess
    \/ MergeDiscordLink

SpecKeys == InitTables /\ [][NextKeys]_vars

(***************************************************************************)
(* The identity flows together with PATCH /auth/me, the profile update.    *)
(* Of the columns update_me writes, username is the one the model keeps.   *)
(***************************************************************************)
\* username of a UserUpdate body left out
NoUsername == "<none>"
\* username of a UserUpdate body that passed validate_username
UpdateUsernames == {NoUsername, "Al"}

\* func.lower on the usernames of the model
LowerUsername(username) == IF username = "Al" THEN "al" ELSE username

\* get_user_by_username: None for a falsy name, else the first row whose
\* username matches ignoring case
GetUserByUsername(S, username) ==
    IF username = "" THEN {NoId}
    ELSE FirstOf({u \in DOMAIN S.users :
                     LowerUsername(S.users[u].username) = LowerUsername(username)})

update_me_deleting_taken(S, req) ==
    LET current_user == req.user_id IN
    IF req.username = NoUsername
    THEN {Result(S, "update_me", req, "unchanged", 200, "", NoId, NoMerge)}
    ELSE { IF existing_user # NoId /\ existing_user # current_user
           THEN Result(DeleteUser([S EXCEPT !.users[current_user].username = req.username],
                                  existing_user),
                       "update_me", req, "username", 200, "", NoId, NoMerge)
           ELSE Result([S EXCEPT !.users[current_user].username = req.username],
                       "update_me", req, "username", 200, "", NoId, NoMerge)
         : existing_user \in GetUserByUsername(S, req.username) }

\* PATCH /auth/me (lines 92-157); req.user_id is the authenticated current_user
update_me(S, req) ==
    LET current_user == req.user_id IN
    IF req.username = NoUsername
    THEN {Result(S, "update_me", req, "unchanged", 200, "", NoId, NoMerge)}
    ELSE { IF existing_user # NoId /\ existing_user # current_user
           THEN Result(S, "update_me", req, "taken", 409, "username_taken", NoId, NoMerge)
           ELSE Result([S EXCEPT !.users[current_user].username = req.username],
                       "update_me", req, "username", 200, "", NoId, NoMerge)
         : existing_user \in GetUserByUsername(S, req.username) }

\* the e-mail a provider reports: none, or one of two addresses
AccountEmails == {NULL, EmailLowerA, EmailB}

AccountsDiscordCallback ==
    \E discord_id \in DiscordIds, email \in AccountEmails, username \in ProfileUsernames,
       user_id \in StateUserIds(users) :
        \E r \in discord_oauth_callback(Store, Request(user_id, discord_id, email, username, "none")) :
            Apply(r)

AccountsGoogleCallback ==
    \E google_id \in GoogleIds, email \in AccountEmails, username \in ProfileUsernames,
       user_id \in StateUserIds(users) :
        \E r \in google_oauth_callback(Store, Request(user_id, google_id, email, username, "none")) :
            Apply(r)

AccountsDiscordLink ==
    \E current_user \in DOMAIN users, discord_id \in DiscordIds, email \in AccountEmails :
        \E r \in link_discord_account(Store, Request(current_user, discord_id, email, "", "none")) :
            Apply(r)

UpdateMe ==
    \E current_user \in DOMAIN users, username \in UpdateUsernames :
        \E r \in update_me(Store, Request(current_user, NULL, NULL, username, "none")) :
            Apply(r)

NextAccounts ==
    \/ BotToken
    \/ BotGetOrCreate
    \/ AccountsDiscordCallback
    \/ AccountsGoogleCallback
    \/ AccountsDiscordLink
    \/ DiscordDisconnect
    \/ UpdateMe

SpecAccounts == Init /\ [][NextAccounts]_vars

(***************************************************************************)
(* Two OAuth callbacks of one provider identity in flight together (a      *)
(* double click).  Each runs in its own session: it reads the registry     *)
(* (both lookups), and then takes its branch on what it read and commits.  *)
(* No row of the store holds the provider id or the e-mail at the start.   *)
(***************************************************************************)
RaceProviders == {"discord", "google"}
RaceEmails == {NULL, EmailLowerA, EmailUpperA}
RaceCallIds == {1, 2}

\* stores that do not know the identity: empty, or holding an unrelated account
RaceStores ==
    {EmptyTable,
     <<NewUser(NULL, NULL, EmailB, "al")>>,
     <<NewUser(<<"d", "2">>, NULL, NULL, "al")>>,
     <<NewUser(NULL, <<"g", "2">>, EmailB, "al")>>}

RaceProviderId(provider) == IF provider = "discord" THEN <<"d", "1">> ELSE <<"g", "1">>

RaceCall(provider, email, username) ==
    [provider |-> provider, pc |-> "lookup",
     req |-> Request(NoId, RaceProviderId(provider), email, username, "none"),
     found |-> <<NoId, NoId>>, branch |-> "", status |-> 0, sub |-> NoId]

InitRace ==
    /\ users \in RaceStores
    /\ processes = EmptyTable
    /\ stages = EmptyTable
    /\ feedback = EmptyTable
    /\ last = InitLast
    /\ \E provider \in RaceProviders, email \in RaceEmails, username \in ProfileUsernames :
          calls = [i \in RaceCallIds |-> RaceCall(provider, email, username)]

\* get_user_by_discord_id / get_user_by_google_id, then get_user_by_email
RaceLookup(i) ==
    /\ calls[i].pc = "lookup"
    /\ \E found \in (IF calls[i].provider = "discord"
                     THEN GetUserByDiscordId(users, calls[i].req.provider_id)
                     ELSE GetUserByGoogleId(users, calls[i].req.provider_id))
                    \X GetUserByEmail(users, calls[i].req.email) :
          calls' = [calls EXCEPT ![i].pc = "decide", ![i].found = found]
    /\ UNCHANGED <<users, processes, stages, feedback, last>>

\* the branch chosen on what the lookups found, run against the store as it
\* is now, up to its commit (or the error that ends the request)
RaceDecide(i) ==
    /\ calls[i].pc = "decide"
    /\ \E r \in (IF calls[i].provider = "discord"
                 THEN DiscordCallbackDecide(Store, calls[i].req,
                                            calls[i].found[1], calls[i].found[2])
                 ELSE GoogleCallbackDecide(Store, calls[i].req,
                                           calls[i].found[1], calls[i].found[2])) :
          /\ DOMAIN r.db.users \subseteq 1 .. MaxUserId
          /\ users' = r.db.users
          /\ processes' = r.db.processes
          /\ stages' = r.db.stages
          /\ feedback' = r.db.feedback
          /\ last' = r.last
          /\ calls' = [calls EXCEPT ![i].pc = "done", ![i].branch = r.last.branch,
                                    ![i].status = r.last.status, ![i].sub = r.last.sub]

NextRace ==
    \/ \E i \in RaceCallIds : RaceLookup(i)
    \/ \E i \in RaceCallIds : RaceDecide(i)

SpecRace == InitRace /\ [][NextRace]_vars

(***************************************************************************)
(* Two merges that share a user, each in its own session.  A merge reads   *)
(* (the queries of merge_user_accounts), commits the transfers (the first  *)
(* db.commit()) and deletes its source (db.delete and the second           *)
(* db.commit()).  In mode "serial" a merge starts only when the other has  *)
(* not started or has ended; in mode "interleaved" the steps of the two    *)
(* interleave freely.  The database may or may not enforce foreign keys    *)
(* (SQLite, the default DATABASE_URL, does not unless asked to).           *)
(***************************************************************************)
MergeModes == {"serial", "interleaved"}

\* the overlapping pairs <<source, target>>: merge(A, B) with merge(B, C), and
\* merge(A, B) with merge(A, C)
MergePairs == {<< <<1, 2>>, <<2, 3>> >>, << <<1, 2>>, <<1, 3>> >>}

MergeCallIds == {1, 2}

UnsafeUsers ==
    <<NewUser(<<"d", "1">>, NULL, NULL, "al"),
      NewUser(NULL, <<"g", "1">>, EmailLowerA, "al"),
      NewUser(NULL, NULL, EmailB, "al")>>

UnsafeProcessRows ==
    [user_id : DOMAIN UnsafeUsers, company_name : {<<"g", "o">>}, position : {NULL, <<"s">>}]

\* no row is one that post_process would have refused when it was created
UnsafeProcessTables(n) ==
    {t \in [1 .. n -> UnsafeProcessRows] :
        \A a, b \in 1 .. n :
            a < b => ~IsDuplicateOf(t[a], t[b].user_id, t[b].company_name,
                                    NormalizePosition(t[b].position))}

NothingRead == [source_processes |-> {}, deleted |-> {}, feedback_items |-> {}]

MergeCall(pair) ==
    [source |-> pair[1], target |-> pair[2], pc |-> "read", rd |-> NothingRead,
     removed |-> {}, outcome |-> ""]

InitUnsafe ==
    /\ users = UnsafeUsers
    /\ \E n \in 0 .. MaxProcessId : processes \in UnsafeProcessTables(n)
    /\ stages = EmptyTable
    /\ feedback = EmptyTable
    /\ last = InitLast
    /\ \E mode \in MergeModes, fk \in BOOLEAN, pairs \in MergePairs :
          calls = [mode |-> mode, fk |-> fk, origin |-> processes,
                   merges |-> [i \in MergeCallIds |-> MergeCall(pairs[i])]]

\* the queries of merge_user_accounts (lines 203-233): the source's processes,
\* the target's processes of a colliding key, the source's feedback
MergeRead(S, source_user, target_user) ==
    LET source_processes == OwnedProcesses(S, source_user)
    IN  { [source_processes |-> source_processes,
           deleted |-> {by_key[ProcessKey(S.processes[sp])] :
                          sp \in {x \in source_processes :
                                    ProcessKey(S.processes[x]) \in DOMAIN by_key}},
           feedback_items |-> {f \in DOMAIN S.feedback : S.feedback[f].user_id = source_user}]
        : by_key \in TargetProcessesByKey(S, target_user) }

MergeCommitWithoutTransfers(S, fk, target_user, rd) ==
    [db |-> DeleteProcesses(S, rd.deleted \cap DOMAIN S.processes), raised |-> FALSE]

\* the first db.commit() (line 237): the flush updates each row read, by id,
\* and deletes the colliding target rows.  A row read that is gone raises
\* StaleDataError; a target that is gone raises IntegrityError where foreign
\* keys are enforced; either rolls the session back.
MergeCommitTransfers(S, fk, target_user, rd) ==
    IF \/ rd.source_processes \ DOMAIN S.processes # {}
       \/ rd.feedback_items \ DOMAIN S.feedback # {}
       \/ /\ fk
          /\ target_user \notin DOMAIN S.users
          /\ rd.source_processes \cup rd.feedback_items # {}
    THEN [db |-> S, raised |-> TRUE]
    ELSE LET S1 == DeleteProcesses(S, rd.deleted \cap DOMAIN S.processes)
         IN  [db |-> [S1 EXCEPT
                        !.processes = [p \in DOMAIN S1.processes |->
                            IF p \in rd.source_processes
                            THEN [S1.processes[p] EXCEPT !.user_id = target_user]
                            ELSE S1.processes[p]],
                        !.feedback = [f \in DOMAIN S1.feedback |->
                            IF f \in rd.feedback_items
                            THEN [S1.feedback[f] EXCEPT !.user_id = target_user]
                            ELSE S1.feedback[f]]],
              raised |-> FALSE]

\* db.delete(source_user); db.commit() (lines 240-242): the cascade deletes
\* the rows that point at the source now.  When the source row is already
\* gone, the refresh of the expired object raises, or the cascade runs and
\* the DELETE matches no row.
MergeCommitDelete(S, source_user) ==
    IF source_user \in DOMAIN S.users
    THEN {[db |-> DeleteUser(S, source_user), raised |-> FALSE]}
    ELSE {[db |-> S, raised |-> TRUE], [db |-> DeleteUser(S, source_user), raised |-> FALSE]}

\* a merge may take a step: always when interleaved; when serial, only while
\* the other merge has not started or has ended
MayStep(i) ==
    \/ calls.mode = "interleaved"
    \/ \A j \in MergeCallIds \ {i} : calls.merges[j].pc \in {"read", "done"}

UnsafeStore(S) ==
    /\ users' = S.users
    /\ processes' = S.processes
    /\ stages' = S.stages
    /\ feedback' = S.feedback
    /\ UNCHANGED last

\* the handler loads the two users and calls merge_user_accounts only when
\* both rows exist
UnsafeRead(i) ==
    LET m == calls.merges[i] IN
    /\ m.pc = "read"
    /\ MayStep(i)
    /\ IF m.source \in DOMAIN users /\ m.target \in DOMAIN users
       THEN \E rd \in MergeRead(Store, m.source, m.target) :
               calls' = [calls EXCEPT !.merges[i].pc = "commit1", !.merges[i].rd = rd]
       ELSE calls' = [calls EXCEPT !.merges[i].pc = "done", !.merges[i].outcome = "not_run"]
    /\ UNCHANGED <<users, processes, stages, feedback, last>>

UnsafeCommitTransfers(i) ==
    LET m == calls.merges[i]
        r == MergeCommitTransfers(Store, calls.fk, m.target, m.rd)
    IN  /\ m.pc = "commit1"
        /\ MayStep(i)
        /\ UnsafeStore(r.db)
        /\ calls' = IF r.raised
                    THEN [calls EXCEPT !.merges[i].pc = "done", !.merges[i].outcome = "raised"]
                    ELSE [calls EXCEPT !.merges[i].pc = "commit2",
                                       !.merges[i].removed = m.rd.deleted]

UnsafeCommitDelete(i) ==
    LET m == calls.merges[i] IN
    /\ m.pc = "commit2"
    /\ MayStep(i)
    /\ \E r \in MergeCommitDelete(Store, m.source) :
          /\ UnsafeStore(r.db)
          /\ calls' = [calls EXCEPT !.merges[i].pc = "done",
                          !.merges[i].outcome = IF r.raised THEN "raised" ELSE "merged"]

NextUnsafe ==
    \/ \E i \in MergeCallIds : UnsafeRead(i)
    \/ \E i \in MergeCallIds : UnsafeCommitTransfers(i)
    \/ \E i \in MergeCallIds : UnsafeCommitDelete(i)

SpecUnsafe == InitUnsafe /\ [][NextUnsafe]_vars

(***************************************************************************)
(* Process and stage creations, feedback, process deletions and account    *)
(* merges, one request at a time, from the two accounts of InitMergeUsers  *)
(* with empty tables.                                                      *)
(***************************************************************************)
\* DELETE /processes/{process_id} (processes.py lines 328-359); req.user_id is
\* the authenticated user
delete_process(S, req, process_id) ==
    IF ~(process_id \in DOMAIN S.processes /\ S.processes[process_id].user_id = req.user_id)
    THEN {Result(S, "delete_process", req, "not_found", 404, "not_found", NoId, NoMerge)}
    ELSE {Result(DeleteProcesses(S, {process_id}),
                 "delete_process", req, "deleted", 200, "", NoId, NoMerge)}

DeleteProcess ==
    \E current_user \in DOMAIN users, process_id \in DOMAIN processes :
        \E r \in delete_process(Store, Request(current_user, NULL, NULL, "", "none"),
                                process_id) :
            Apply(r)

NextOwnership ==
    \/ PostProcess
    \/ PostStage
    \/ CreateFeedback
    \/ DeleteProcess
    \/ MergeDiscordLink

SpecOwnership == InitTables /\ [][NextOwnership]_vars

(***************************************************************************)
(* Two ghost creations for one unseen discord_id in flight together, each  *)
(* the bot-token endpoint or the bot's helper in its own session: the      *)
(* lookup, then the branch on what it found and its commit.                *)
(***************************************************************************)
GhostOps == {"bot_token", "get_or_create"}

GhostCall(op, username) ==
    [op |-> op, pc |-> "lookup", req |-> Request(NoId, <<"d", "1">>, NULL, username, "none"),
     found |-> NoId, status |-> 0, detail |-> "", sub |-> NoId]

InitGhostRace ==
    /\ users \in RaceStores
    /\ processes = EmptyTable
    /\ stages = EmptyTable
    /\ feedback = EmptyTable
    /\ last = InitLast
    /\ calls \in [RaceCallIds -> {GhostCall(op, username) : op \in GhostOps,
                                                          username \in Usernames}]

\* user = get_user_by_discord_id(db, discord_id)
GhostLookup(i) ==
    /\ calls[i].pc = "lookup"
    /\ \E found \in GetUserByDiscordId(users, calls[i].req.provider_id) :
          calls' = [calls EXCEPT ![i].pc = "decide", ![i].found = found]
    /\ UNCHANGED <<users, processes, stages, feedback, last>>

GhostDecide(i) ==
    LET r == IF calls[i].op = "bot_token"
             THEN BotTokenDecide(Store, calls[i].req, calls[i].found)
             ELSE GetOrCreateDecide(Store, calls[i].req, calls[i].found)
    IN  /\ calls[i].pc = "decide"
        /\ DOMAIN r.db.users \subseteq 1 .. MaxUserId
        /\ users' = r.db.users
        /\ processes' = r.db.processes
        /\ stages' = r.db.stages
        /\ feedback' = r.db.feedback
        /\ last' = r.last
        /\ calls' = [calls EXCEPT ![i].pc = "done", ![i].status = r.last.status,
                                  ![i].detail = r.last.detail, ![i].sub = r.last.sub]

NextGhostRace ==
    \/ \E i \in RaceCallIds : GhostLookup(i)
    \/ \E i \in RaceCallIds : GhostDecide(i)

SpecGhostRace == InitGhostRace /\ [][NextGhostRace]_vars

(***************************************************************************)
(* Properties of the identity flows.                                       *)
(***************************************************************************)
LinkingOps == {"discord_callback", "google_callback", "discord_link"}

\* C1: in every reachable state no two User rows hold the same non-null
\* discord_id, the same non-null google_id or the same non-null email.
C1_IdentityKeyUniqueness ==
    \A a, b \in DOMAIN users :
        a # b =>
            /\ ~(users[a].discord_id # NULL /\ users[a].discord_id = users[b].discord_id)
            /\ ~(users[a].google_id # NULL /\ users[a].google_id = users[b].google_id)
            /\ ~(users[a].email # NULL /\ users[a].email = users[b].email)

\* a callback whose target id resolved to no row tried to insert a second row
\* with a key another row holds, and the store still has both earlier rows
C1_Witness ==
    /\ last.branch = "user_not_found"
    /\ last.detail = "integrity_error"
    /\ Cardinality(DOMAIN users) >= 2

(***************************************************************************)
(* Properties of merge.  A step is a completed merge when the request ran  *)
(* merge_user_accounts and no commit of it raised; last'.source and        *)
(* last'.target are then its arguments, and the unprimed tables the store  *)
(* it started from.                                                        *)
(***************************************************************************)
\* the dedup key of the data model: company ignoring case; position trimmed
\* and ignoring case, none when null, empty or whitespace-only
DedupKey(p) ==
    <<Lower(p.company_name),
      IF NormalizePosition(p.position) = NULL THEN NULL
      ELSE Lower(NormalizePosition(p.position))>>

StagesOf(st, p) == {<<s, st[s]>> : s \in {x \in DOMAIN st : st[x].process_id = p}}

MergeCompleted == last'.source # NoId /\ last'.source # last'.target /\ last'.detail # "db_error"

MergeFailed == last'.source # NoId /\ last'.source # last'.target /\ last'.detail = "db_error"

\* C2: after a merge of source into target, every process source owned still
\* exists under its id with its stages and is owned by target, and every
\* process of target whose dedup key is that of a source process is gone with
\* all of its stages.
C2_SourceWinsOnCollision ==
    [][ MergeCompleted =>
          /\ \A p \in OwnedProcesses(Store, last'.source) :
                /\ p \in DOMAIN processes'
                /\ processes'[p].user_id = last'.target
                /\ StagesOf(stages', p) = StagesOf(stages, p)
          /\ \A q \in OwnedProcesses(Store, last'.target) :
                (\E p \in OwnedProcesses(Store, last'.source) :
                    DedupKey(processes[p]) = DedupKey(processes[q]))
                => /\ q \notin DOMAIN processes'
                   /\ StagesOf(stages', q) = {} ]_vars

\* C3: after a merge, of a source process and a target process whose company
\* names are equal ignoring case and whose positions are equal ignoring case,
\* the source's survives and the target's does not.
C3_CaseInsensitiveDedupKey ==
    [][ MergeCompleted =>
          \A p \in OwnedProcesses(Store, last'.source),
             q \in OwnedProcesses(Store, last'.target) :
              ( /\ Lower(processes[p].company_name) = Lower(processes[q].company_name)
                /\ processes[p].position # NULL
                /\ processes[q].position # NULL
                /\ Lower(processes[p].position) = Lower(processes[q].position) )
              => (p \in DOMAIN processes' /\ q \notin DOMAIN processes') ]_vars

C6_MergeAtomicity ==
    [][ MergeFailed =>
          /\ users' = users
          /\ processes' = processes
          /\ stages' = stages
          /\ feedback' = feedback ]_vars

\* C7: in an explicit-target linking flow for target A, when the provider email
\* is the email of a user B other than A and B does not hold the provider id,
\* the request ends in the conflict error and the rows of A and B are unchanged.
C7_ConflictNeverSilentlyResolved ==
    [][ \A A, B \in DOMAIN users :
          ( /\ last'.op \in LinkingOps
            /\ last'.branch = "explicit"
            /\ last'.user_id = A
            /\ B # A
            /\ Truthy(last'.email)
            /\ users[B].email = last'.email
            /\ users[B].discord_id # last'.provider_id
            /\ users[B].google_id # last'.provider_id )
          => ( /\ last'.detail = "conflict"
               /\ A \in DOMAIN users' /\ users'[A] = users[A]
               /\ B \in DOMAIN users' /\ users'[B] = users[B] ) ]_vars

\* C8: whenever a linking request detects the email conflict, the caller gets
\* HTTP 400.
C8_ConflictIs400 ==
    (last.op \in LinkingOps /\ last.detail = "conflict") => last.status = 400

\* C9: a linking request never changes a non-null email of a user that exists
\* before and after it.
C9_EmailPermanence ==
    [][ last'.op \in LinkingOps =>
          \A u \in DOMAIN users \cap DOMAIN users' :
              users[u].email # NULL => users'[u].email = users[u].email ]_vars

\* C10: every bot-token request for discord_id d returns a user id, leaves
\* exactly one row with discord_id d, which is the returned one, and returns the
\* id the previous bot-token request for d returned.
C10_IdempotentGhostCreation ==
    [][ last'.op = "bot_token" =>
          /\ last'.sub # NoId
          /\ {u \in DOMAIN users' : users'[u].discord_id = last'.provider_id} = {last'.sub}
          /\ (last.op = "bot_token" /\ last.provider_id = last'.provider_id
                => last'.sub = last.sub) ]_vars

\* C11: a get-or-create for a discord_id whose user exists with another
\* username returns that user and sets its username to the supplied one, and
\* changes no other field of it and no other row.
C11_GhostUpdateFrame ==
    [][ \A u \in DOMAIN users :
          ( /\ last'.op \in {"bot_token", "get_or_create"}
            /\ users[u].discord_id = last'.provider_id
            /\ users[u].username # last'.username )
          => ( /\ last'.sub = u
               /\ users' = [users EXCEPT ![u].username = last'.username]
               /\ processes' = processes
               /\ stages' = stages
               /\ feedback' = feedback ) ]_vars

\* the same for the bot-token endpoint alone
BotTokenUpdateFrame ==
    [][ \A u \in DOMAIN users :
          ( /\ last'.op = "bot_token"
            /\ users[u].discord_id = last'.provider_id
            /\ users[u].username # last'.username )
          => ( /\ last'.sub = u
               /\ users' = [users EXCEPT ![u].username = last'.username]
               /\ processes' = processes
               /\ stages' = stages
               /\ feedback' = feedback ) ]_vars

\* the user rows of us that hold provider_id as the provider id of request op
HoldsProviderId(us, u, op, provider_id) ==
    /\ u \in DOMAIN us
    /\ IF op = "google_callback" THEN us[u].google_id = provider_id
       ELSE us[u].discord_id = provider_id

\* C12: in a linking request that performs a merge, the source is the user
\* found by the provider id, the target is the explicit target when one is
\* supplied and resolves and otherwise a user found by the provider email, and
\* after the request the target holds the provider id and the source's row is
\* gone.
C12_MergeDirection ==
    [][ (last'.op \in LinkingOps /\ MergeCompleted) =>
          /\ HoldsProviderId(users, last'.source, last'.op, last'.provider_id)
          /\ IF last'.user_id \in DOMAIN users
             THEN last'.target = last'.user_id
             ELSE /\ last'.target \in DOMAIN users
                  /\ users[last'.target].email # NULL
                  /\ Lower(users[last'.target].email) = Lower(last'.email)
          /\ HoldsProviderId(users', last'.target, last'.op, last'.provider_id)
          /\ last'.source \notin DOMAIN users' ]_vars

\* the direction alone: who is absorbed and who survives
MergeDirectionOnly ==
    [][ (last'.op \in LinkingOps /\ MergeCompleted) =>
          /\ HoldsProviderId(users, last'.source, last'.op, last'.provider_id)
          /\ IF last'.user_id \in DOMAIN users
             THEN last'.target = last'.user_id
             ELSE /\ last'.target \in DOMAIN users
                  /\ users[last'.target].email # NULL
                  /\ Lower(users[last'.target].email) = Lower(last'.email)
          /\ last'.target \in DOMAIN users'
          /\ last'.source \notin DOMAIN users'
          /\ (last'.detail = "" =>
                HoldsProviderId(users', last'.target, last'.op, last'.provider_id)) ]_vars

\* C13: every token a Discord callback, a Google callback or a bot-token
\* request issues has as subject the id of a row that exists when the request
\* ends and holds the provider id of the request.
C13_TokenSubjectIsSurvivor ==
    (last.op \in {"discord_callback", "google_callback", "bot_token"} /\ last.sub # NoId)
    => HoldsProviderId(users, last.sub, last.op, last.provider_id)

\* a callback merged the row that held the provider id into another row and
\* issued its token for that other row
C13_Witness ==
    /\ last.op \in {"discord_callback", "google_callback"}
    /\ last.source # NoId
    /\ last.source \notin DOMAIN users
    /\ last.sub = last.target
    /\ HoldsProviderId(users, last.sub, last.op, last.provider_id)

\* C14: when a callback has no target that resolves, no row holds the
\* provider id and the provider supplied no email, the callback ends in the
\* missing-email error and the store is unchanged.
C14_CreateNewRequiresEmail ==
    [][ ( /\ last'.op \in {"discord_callback", "google_callback"}
          /\ last'.user_id \notin DOMAIN users
          /\ last'.email \in {NULL, EmptyStr}
          /\ \A u \in DOMAIN users :
                ~HoldsProviderId(users, u, last'.op, last'.provider_id) )
        => ( /\ last'.detail = "missing_email"
             /\ last'.sub = NoId
             /\ users' = users
             /\ processes' = processes
             /\ stages' = stages
             /\ feedback' = feedback ) ]_vars

\* a callback without an email for an unknown provider id was refused while
\* other rows exist, both with no target and with a target that did not resolve
C14_Witness ==
    /\ last.op \in {"discord_callback", "google_callback"}
    /\ last.detail = "missing_email"
    /\ last.branch = "create_new"
    /\ last.email \in {NULL, EmptyStr}
    /\ users # EmptyTable

\* C15: a callback whose target id resolves to no row and whose profile
\* carries an email does not fail: it ends with a token for a row that holds
\* the provider id.
C15_UserNotFoundFallback ==
    [][ ( /\ last'.op \in {"discord_callback", "google_callback"}
          /\ last'.user_id # NoId
          /\ last'.user_id \notin DOMAIN users
          /\ Truthy(last'.email) )
        => ( /\ last'.status = 307
             /\ last'.sub # NoId
             /\ HoldsProviderId(users', last'.sub, last'.op, last'.provider_id) ) ]_vars

\* C16: a successful disconnect sets discord_id of the caller's row to null
\* and changes nothing else: no other field of that row, no other user row, no
\* process, stage or feedback row, and it deletes no user.
C16_DisconnectFrame ==
    [][ (last'.op = "discord_disconnect" /\ last'.status = 200) =>
          /\ users' = [users EXCEPT ![last'.user_id].discord_id = NULL]
          /\ processes' = processes
          /\ stages' = stages
          /\ feedback' = feedback ]_vars

\* a user that owns a process has disconnected while another user exists
C16_Witness ==
    /\ last.op = "discord_disconnect"
    /\ last.status = 200
    /\ last.user_id \in DOMAIN users
    /\ users[last.user_id].discord_id = NULL
    /\ Cardinality(DOMAIN users) >= 2
    /\ \E p \in DOMAIN processes : processes[p].user_id = last.user_id

\* the store of the end-to-end scenario: G = 1 owns ("Go", null), W = 2 owns
\* ("go", web_position), each with its stage
EndToEndStore(web_position) ==
    /\ users = InitMergeUsers
    /\ processes = <<[user_id |-> 1, company_name |-> <<"G", "o">>, position |-> NULL],
                     [user_id |-> 2, company_name |-> <<"g", "o">>,
                      position |-> web_position]>>
    /\ stages = EndToEndStages
    /\ feedback = EmptyTable

\* a Discord link or callback with explicit target W = 2 for the Discord id of
\* G that met no database error
EndToEndLink ==
    /\ last'.op \in {"discord_link", "discord_callback"}
    /\ last'.user_id = 2
    /\ last'.provider_id = InitMergeUsers[1].discord_id
    /\ last'.dberr = "none"

\* G is deleted, W owns exactly one process, whose only stage is "OA", holds
\* the Discord id and keeps its email
EndToEndOutcome ==
    /\ DOMAIN users' = {2}
    /\ users'[2].discord_id = InitMergeUsers[1].discord_id
    /\ users'[2].email = InitMergeUsers[2].email
    /\ \E p \in DOMAIN processes' :
          /\ {q \in DOMAIN processes' : processes'[q].user_id = 2} = {p}
          /\ {x[2].stage_name : x \in StagesOf(stages', p)} = {"OA"}
          /\ Cardinality(StagesOf(stages', p)) = 1

EndToEndThroughRoutes ==
    [][ (EndToEndStore(NormalizePosition(EmptyStr)) /\ EndToEndLink) => EndToEndOutcome ]_vars

\* C18: every bot-token request ends with a token whose subject is the user
\* that holds the discord_id, never in an error; when no row held the
\* discord_id before, that user is a new row with a null email.
C18_BotTokenAlwaysSucceeds ==
    [][ last'.op = "bot_token" =>
          /\ last'.status = 200
          /\ last'.sub # NoId
          /\ HoldsProviderId(users', last'.sub, "bot_token", last'.provider_id)
          /\ ( (\A u \in DOMAIN users : users[u].discord_id # last'.provider_id)
               => /\ last'.sub \notin DOMAIN users
                  /\ users'[last'.sub].email = NULL ) ]_vars

\* C19: in every state reached by process creations, process updates and
\* account merges, no user owns two Processes with the same dedup key.
C19_PerUserProcessKeyUniqueness ==
    \A p, q \in DOMAIN processes :
        (p # q /\ processes[p].user_id = processes[q].user_id)
            => DedupKey(processes[p]) # DedupKey(processes[q])

\* creations and updates keep the keys of a user distinct: only a merge
\* can bring two equal keys under one user
KeysUniqueExceptByMerge ==
    [][ (C19_PerUserProcessKeyUniqueness /\ ~C19_PerUserProcessKeyUniqueness')
            => (last'.op = "discord_link" /\ last'.moved # {}) ]_vars

\* C20: in every step of bot-token, callback, link, disconnect and
\* profile-update operations, a User row that exists before the step and not
\* after it was the source of the merge the step performed, and the target of
\* that merge exists after the step.
C20_UsersDeletedOnlyByMerge ==
    [][ \A u \in DOMAIN users \ DOMAIN users' :
          /\ last'.source = u
          /\ last'.target # u
          /\ last'.target \in DOMAIN users' ]_vars

\* a request has just merged a source row away and its target row remains
C20_Witness ==
    /\ last.op \in LinkingOps
    /\ last.source # NoId
    /\ last.source \notin DOMAIN users
    /\ last.target \in DOMAIN users

IdentityKeys(us) == [u \in DOMAIN us |-> <<us[u].discord_id, us[u].google_id, us[u].email>>]

\* success, conflict rejection, or another error
OutcomeClass(l) ==
    IF l.detail = "" THEN "success" ELSE IF l.detail = "conflict" THEN "conflict" ELSE "error"

LinkOutcome(r) ==
    [users |-> IdentityKeys(r.db.users), processes |-> r.db.processes,
     stages |-> r.db.stages, feedback |-> r.db.feedback, class |-> OutcomeClass(r.last)]

LinkOutcomes(U, discord_id, email, dberr) ==
    {LinkOutcome(r) : r \in link_discord_account(Store, Request(U, discord_id, email, "", dberr))}

\* C22: for every store, authenticated user U and Discord profile (id, email),
\* POST /auth/discord/link by U and the Discord callback with state userId =
\* U.id reach the same store (users with their identity keys, processes,
\* stages, feedback) and the same outcome class.
C22_LinkEqualsExplicitCallback ==
    \A U \in DOMAIN users, discord_id \in DiscordIds, email \in ProviderEmails,
       username \in ProfileUsernames, dberr \in DbErrors :
        LinkOutcomes(U, discord_id, email, dberr)
            = {LinkOutcome(r) : r \in discord_oauth_callback(
                                 Store, Request(U, discord_id, email, username, dberr))}

\* a store in which a link merges and succeeds for one profile and merges and
\* is then rejected with the conflict for another
C22_Witness ==
    \E U \in DOMAIN users, discord_id \in DiscordIds, email, other_email \in ProviderEmails :
        /\ \E o \in LinkOutcomes(U, discord_id, email, "none") :
              o.class = "success" /\ DOMAIN o.users # DOMAIN users
        /\ \E o \in LinkOutcomes(U, discord_id, other_email, "none") :
              o.class = "conflict" /\ DOMAIN o.users # DOMAIN users

RaceHolders ==
    {u \in DOMAIN users :
        \E i \in RaceCallIds :
            IF calls[i].provider = "discord"
            THEN users[u].discord_id = calls[i].req.provider_id
            ELSE users[u].google_id = calls[i].req.provider_id}

\* both callbacks read the registry before either committed, found nothing,
\* took the create-new branch with an e-mail to create from, and have ended
RaceBothCreatedNew ==
    /\ calls # NoCalls
    /\ \A i \in RaceCallIds :
          /\ calls[i].pc = "done"
          /\ calls[i].branch = "create_new"
          /\ calls[i].found = <<NoId, NoId>>
          /\ Truthy(calls[i].req.email)

\* C23 as stated: when two concurrent callbacks of one unknown provider
\* identity both look up before either commits and both take the create-new
\* branch, the store ends with two User rows holding the same provider id.
C23_RaceLeavesTwoRows ==
    RaceBothCreatedNew => Cardinality(RaceHolders) = 2

\* C23 as the code behaves: in that interleaving the store ends with exactly
\* one User row holding the provider id; one callback ends with a token for
\* that row and the other ends in HTTP 500 on the UNIQUE constraint.
C23_RaceLeavesOneRow ==
    RaceBothCreatedNew =>
        /\ Cardinality(RaceHolders) = 1
        /\ \E i, j \in RaceCallIds :
              /\ i # j
              /\ calls[i].status = 307 /\ calls[i].sub \in RaceHolders
              /\ calls[j].status = 500 /\ calls[j].sub = NoId

C23_Witness ==
    RaceBothCreatedNew /\ Cardinality(RaceHolders) = 1

MergesEnded == \A i \in MergeCallIds : calls.merges[i].pc = "done"

\* a process the sources owned at the start that no existing user owns now
\* and that no dedup collision removed
LostProcesses ==
    {p \in DOMAIN calls.origin :
        /\ \E i \in MergeCallIds : calls.origin[p].user_id = calls.merges[i].source
        /\ ~(p \in DOMAIN processes /\ processes[p].user_id \in DOMAIN users)
        /\ \A i \in MergeCallIds : p \notin calls.merges[i].removed}

CallbackOps == {"discord_callback", "google_callback"}

\* the users that own the provider id of a callback
IdOwners(us, op, provider_id) == {u \in DOMAIN us : HoldsProviderId(us, u, op, provider_id)}

\* the users that own the provider email, as the registry matches emails
\* (ignoring case); none when the provider gave no email
EmailOwners(us, email) ==
    IF Truthy(email)
    THEN {u \in DOMAIN us : us[u].email # NULL /\ Lower(us[u].email) = Lower(email)}
    ELSE {}

\* C25: a callback without explicit target runs the one branch that the owners
\* of the provider id and of the provider email determine: a user other than
\* the id-owner owns the email -> the id-owner is merged into that user; the
\* id-owner exists and no other user owns the email -> no merge, no row
\* deleted, the id-owner is returned; only an email-owner exists -> the
\* provider id is attached to it; neither exists -> a new user is created.
C25_LinkDecisionTotalAndExclusive ==
    [][ (last'.op \in CallbackOps /\ last'.user_id = NoId) =>
          LET I == IdOwners(users, last'.op, last'.provider_id)
              E == EmailOwners(users, last'.email)
          IN  /\ (I # {} /\ E \ I # {}) =>
                    /\ last'.source \in I
                    /\ last'.target \in E \ I
                    /\ last'.source \notin DOMAIN users'
                    /\ last'.sub = last'.target
              /\ (I # {} /\ E \ I = {}) =>
                    /\ last'.source = NoId
                    /\ DOMAIN users' = DOMAIN users
                    /\ last'.sub \in I
              /\ (I = {} /\ E # {}) =>
                    /\ last'.source = NoId
                    /\ DOMAIN users' = DOMAIN users
                    /\ last'.sub \in E
                    /\ HoldsProviderId(users', last'.sub, last'.op, last'.provider_id)
              /\ (I = {} /\ E = {}) =>
                    /\ last'.source = NoId
                    /\ DOMAIN users \subseteq DOMAIN users'
                    /\ last'.branch = "create_new"
                    /\ Truthy(last'.email) =>
                          /\ last'.sub \notin DOMAIN users
                          /\ HoldsProviderId(users', last'.sub, last'.op,
                                             last'.provider_id) ]_vars

\* C26: after an explicit-target linking request, successful or rejected,
\* the store never has the former holder of the provider id deleted while no
\* user holds that provider id.
C26_MergeAndAttachTogether ==
    [][ (last'.op \in LinkingOps /\ last'.branch = "explicit") =>
          \A holder \in IdOwners(users, last'.op, last'.provider_id) :
              holder \notin DOMAIN users'
                  => IdOwners(users', last'.op, last'.provider_id) # {} ]_vars

\* C27: in every state reached by process and stage creations, process
\* deletions and account merges run one at a time, every Stage belongs to a
\* Process that exists, every Process belongs to a User that exists, and no
\* Feedback points at a user that does not exist.
C27_OwnershipIntegrity ==
    /\ \A s \in DOMAIN stages : stages[s].process_id \in DOMAIN processes
    /\ \A p \in DOMAIN processes : processes[p].user_id \in DOMAIN users
    /\ \A f \in DOMAIN feedback : feedback[f].user_id \in DOMAIN users \cup {NoId}

\* a merge has deleted its source and a colliding process of the target, and
\* a process it moved keeps a stage under the target
C27_Witness ==
    /\ last.source # NoId /\ last.source \notin DOMAIN users
    /\ last.deleted # {} /\ last.deleted \cap DOMAIN processes = {}
    /\ \E s \in DOMAIN stages :
          /\ stages[s].process_id \in last.moved
          /\ processes[stages[s].process_id].user_id = last.target

GhostHolders == {u \in DOMAIN users : users[u].discord_id = <<"d", "1">>}

GhostCallsEnded == \A i \in RaceCallIds : calls[i].pc = "done"

\* C28: when two ghost creations for one unseen discord_id run concurrently,
\* in every interleaving the store ends with exactly one User row holding the
\* discord_id and both requests end with a token for that row.
C28_ConcurrentGhostCreation ==
    GhostCallsEnded =>
        /\ Cardinality(GhostHolders) = 1
        /\ \A i \in RaceCallIds : calls[i].status = 200 /\ calls[i].sub \in GhostHolders

\* the store never holds two rows with the discord_id, and two calls of the
\* bot's helper that both looked up before either inserted do not both succeed
GhostRaceOfHelper ==
    /\ Cardinality(GhostHolders) <= 1
    /\ ( /\ GhostCallsEnded
         /\ \A i \in RaceCallIds : calls[i].op = "get_or_create" /\ calls[i].found = NoId )
       => \E i, j \in RaceCallIds :
             /\ calls[i].status = 200 /\ calls[i].sub \in GhostHolders
             /\ calls[j].status = 500 /\ calls[j].detail = "integrity_error"

\* the request of this step is the request of the step before
SameRequestAgain ==
    /\ last'.op = last.op
    /\ last'.user_id = last.user_id
    /\ last'.provider_id = last.provider_id
    /\ last'.email = last.email
    /\ last'.username = last.username

\* C29: a callback request that succeeded, run a second time right after,
\* succeeds again, returns a token for the same user and leaves the store as
\* the first run left it.
C29_RepeatedCallbackIdempotent ==
    [][ (last.op \in CallbackOps /\ last.status = 307 /\ SameRequestAgain) =>
          /\ last'.status = 307
          /\ last'.sub = last.sub
          /\ users' = users
          /\ processes' = processes
          /\ stages' = stages
          /\ feedback' = feedback ]_vars

====
